---- MODULE Spec2Model ----
(***************************************************************************)
(* Model of src/vacancies.py: the paginated collection loop (collect_once, *)
(* fetch_page), the window/city filter (filter_vacancies) and the chunked  *)
(* dispatch (send_to_telegram).                                            *)
(*                                                                         *)
(* Time is counted in whole hours since the epoch.  Strings whose content  *)
(* matters (city names) are sequences of one-character strings; the        *)
(* Cyrillic city names of TARGET_CITIES are written in Latin               *)
(* transliteration.                                                        *)
(***************************************************************************)
EXTENDS Integers, Sequences, FiniteSets, TLC

\* ------------------------------------------------------------------------
\* Bounds of the model (not program constants)
\* ------------------------------------------------------------------------
MaxVac == 3
MaxLimit == 7
MaxItems == 5
MaxLines == 4
MaxRun == 2
MaxNow == 47

\* ------------------------------------------------------------------------
\* Program constants
\* ------------------------------------------------------------------------
MOSCOW_OFFSET == 3
DAY_HOURS == 24
PERIOD_HOUR == 20
DATETIME_MIN == 0 - 17259888
MAX_PAGE_ATTEMPTS == 6
INITIAL_BACKOFF == 1
BACKOFF_CAP == 60
PAGE_CEILING == 20
ACCUMULATION_FACTOR == 3
MESSAGE_LIMIT == 4000
CHUNK_DELAY == 1

\* Python's None where a string is expected: a value that is no string
NoneVal == <<"<None>">>

\* ------------------------------------------------------------------------
\* Strings as sequences of characters
\* ------------------------------------------------------------------------
UpperChars ==
  <<"A", "B", "C", "D", "E", "F", "G", "H", "I", "J", "K", "L", "M",
    "N", "O", "P", "Q", "R", "S", "T", "U", "V", "W", "X", "Y", "Z">>
LowerChars ==
  <<"a", "b", "c", "d", "e", "f", "g", "h", "i", "j", "k", "l", "m",
    "n", "o", "p", "q", "r", "s", "t", "u", "v", "w", "x", "y", "z">>

\* str.lower() on one character
LowerChar(c) ==
  IF \E i \in 1..Len(UpperChars) : UpperChars[i] = c
  THEN LowerChars[CHOOSE i \in 1..Len(UpperChars) : UpperChars[i] = c]
  ELSE c

\* str.lower()
Lower(s) == [i \in 1..Len(s) |-> LowerChar(s[i])]

\* the Python expression `sub in s` on strings
Contains(sub, s) ==
  \E k \in 0..(Len(s) - Len(sub)) : SubSeq(s, k + 1, k + Len(sub)) = sub

S_Moskva == <<"M", "o", "s", "k", "v", "a">>
S_SPb == <<"S", "a", "n", "k", "t", "-", "P", "e", "t", "e", "r", "b", "u", "r", "g">>
S_MoskvaObl == S_Moskva \o <<" ", "i", " ">> \o <<"M", "o", "s", "k", "o", "v", "s", "k", "a", "y", "a">>
S_SPbObl == S_SPb \o <<" ", "i", " ", "o", "b", "l", "a", "s", "t", "'">>

TARGET_CITIES == <<S_Moskva, S_SPb, S_MoskvaObl, S_SPbObl>>

\* is_target_city
is_target_city(city_name) ==
  \E i \in 1..Len(TARGET_CITIES) :
     Contains(Lower(TARGET_CITIES[i]), Lower(city_name))

\* ------------------------------------------------------------------------
\* Dates
\* ------------------------------------------------------------------------
\* A published_at value is [kind, wall, tz]: kind "none" is null in the
\* response, "garbage" a string that is not ISO 8601, "iso" the wall-clock
\* hour `wall` followed by the suffix tz: "Z", "" (naive) or "+03:00".
TzOffset(z) == IF z = "+03:00" THEN MOSCOW_OFFSET ELSE 0

\* parse_date: the instant (hours, UTC); any failure gives datetime.min
parse_date(date_string) ==
  IF date_string.kind # "iso"
  THEN DATETIME_MIN
  ELSE date_string.wall - TzOffset(date_string.tz)

\* get_target_period, for the current time now_utc
get_target_period_UtcDay(now_utc) ==
  LET today_20_moscow == (now_utc \div DAY_HOURS) * DAY_HOURS + PERIOD_HOUR
  IN  <<today_20_moscow - DAY_HOURS - MOSCOW_OFFSET, today_20_moscow - MOSCOW_OFFSET>>

get_target_period(now_utc) ==
  LET now_moscow == now_utc + MOSCOW_OFFSET
      today_20_moscow == (now_moscow \div DAY_HOURS) * DAY_HOURS + PERIOD_HOUR
      yesterday_20_moscow == today_20_moscow - DAY_HOURS
  IN  <<yesterday_20_moscow - MOSCOW_OFFSET, today_20_moscow - MOSCOW_OFFSET>>

\* ------------------------------------------------------------------------
\* detect_specialization
\* ------------------------------------------------------------------------
\* a key that a dict does not have
Absent == <<"<absent>">>

\* dict.get(key, default) on the value stored under the key
DictGet(value, default) == IF value = Absent THEN default ELSE value

S_python == <<"p", "y", "t", "h", "o", "n">>
S_java == <<"j", "a", "v", "a">>
S_javascript == S_java \o <<"s", "c", "r", "i", "p", "t">>
S_js == <<"j", "s">>
S_frontend == <<"f", "r", "o", "n", "t", "e", "n", "d">>
S_react == <<"r", "e", "a", "c", "t">>
S_angular == <<"a", "n", "g", "u", "l", "a", "r">>
S_vue == <<"v", "u", "e">>

\* name.lower() + ' ' + (requirement + ' ' + responsibility).lower()
FullText(vacancy_name, snippet) ==
  Lower(vacancy_name) \o <<" ">> \o
  Lower(DictGet(snippet.requirement, <<>>) \o <<" ">> \o
        DictGet(snippet.responsibility, <<>>))

\* the operands are not all strings: .lower() or + raises
DetectRaises(vacancy_name, snippet) ==
  \/ vacancy_name = NoneVal
  \/ snippet.requirement = NoneVal
  \/ snippet.responsibility = NoneVal

\* the if/elif chain, on strings
detect_specialization_JavaFirst(vacancy_name, snippet) ==
  LET full_text == FullText(vacancy_name, snippet) IN
  IF Contains(S_java, full_text) THEN "Java"
  ELSE IF Contains(S_python, full_text) THEN "Python"
  ELSE IF Contains(S_frontend, full_text) \/ Contains(S_react, full_text)
          \/ Contains(S_angular, full_text) \/ Contains(S_vue, full_text)
       THEN "Frontend"
  ELSE IF Contains(S_javascript, full_text) \/ Contains(S_js, full_text)
       THEN "Frontend"
  ELSE "IT"

detect_specialization(vacancy_name, snippet) ==
  LET full_text == FullText(vacancy_name, snippet) IN
  IF Contains(S_python, full_text) THEN "Python"
  ELSE IF Contains(S_java, full_text) /\ ~Contains(S_javascript, full_text)
          /\ ~Contains(S_js, full_text)
       THEN "Java"
  ELSE IF Contains(S_frontend, full_text) \/ Contains(S_react, full_text)
          \/ Contains(S_angular, full_text) \/ Contains(S_vue, full_text)
       THEN "Frontend"
  ELSE IF Contains(S_javascript, full_text) \/ Contains(S_js, full_text)
       THEN "Frontend"
  ELSE "IT"

Snippet(req, resp) == [requirement |-> req, responsibility |-> resp]

\* no call of detect_specialization made
NoCall == [name |-> <<>>, snippet |-> Snippet(<<>>, <<>>), out |-> "none"]

\* ------------------------------------------------------------------------
\* Upstream items
\* ------------------------------------------------------------------------
Iso(w, z) == [kind |-> "iso", wall |-> w, tz |-> z]
NoDate == [kind |-> "none", wall |-> 0, tz |-> ""]
BadDate == [kind |-> "garbage", wall |-> 0, tz |-> ""]

S_g_MOSKVA == <<"g", ".", " ">> \o <<"M", "O", "S", "K", "V", "A">>
S_spb_lower == Lower(S_SPbObl)
S_Kazan == <<"K", "a", "z", "a", "n", "'">>
S_Mosk == <<"M", "o", "s", "k">>

Area(n) == [present |-> TRUE, name |-> n]
NoArea == [present |-> FALSE, name |-> NoneVal]

\* The items the modelled upstream can return, for a period [ps, pe]:
\* publication dates on and around both ends of the period in the three
\* accepted notations, missing and malformed dates, and city names that
\* match, match only case-insensitively or as a substring, or do not match.
ItemTemplates(ps, pe) ==
  << [published_at |-> Iso(ps + 1, "Z"),          area |-> Area(S_Moskva)],
     [published_at |-> Iso(ps, "Z"),              area |-> Area(S_g_MOSKVA)],
     [published_at |-> Iso(ps - 1, "Z"),          area |-> Area(S_Moskva)],
     [published_at |-> Iso(pe, ""),               area |-> Area(S_SPb)],
     [published_at |-> Iso(pe + 1, "Z"),          area |-> Area(S_Moskva)],
     [published_at |-> Iso(ps + 1, ""),           area |-> Area(S_Kazan)],
     [published_at |-> Iso(pe + MOSCOW_OFFSET, "+03:00"), area |-> Area(S_spb_lower)],
     [published_at |-> NoDate,                    area |-> Area(S_Moskva)],
     [published_at |-> Iso(ps + 1, "Z"),          area |-> NoArea],
     [published_at |-> Iso(pe, "Z"),              area |-> Area(<<>>)],
     [published_at |-> BadDate,                   area |-> Area(S_SPb)],
     [published_at |-> Iso(ps + 1, "Z"),          area |-> Area(S_Mosk)],
     [published_at |-> Iso(ps + MOSCOW_OFFSET + 1, "+03:00"), area |-> Area(S_MoskvaObl)] >>

NTemplates == Len(ItemTemplates(0, DAY_HOURS))

\* A string whose characters no rule looks at is given by its length only.
Opaque(n) == [none |-> FALSE, len |-> n]

\* None where such a string is expected; an f-string prints it as "None"
OpaqueNone == [none |-> TRUE, len |-> 4]

S_RUR == <<"R", "U", "R">>
S_tagged_python == <<"<", "b", ">">> \o S_python \o <<"<", "/", "b", ">">>
S_Python_Dev == <<"P", "y", "t", "h", "o", "n", " ", "D", "e", "v">>
S_JS_Dev == <<"J", "S", " ", "D", "e", "v">>
S_JAVA == <<"J", "A", "V", "A">>
S_Go == <<"G", "o">>

Employer(n) == [present |-> TRUE, name |-> n]
NoEmployer == [present |-> FALSE, name |-> OpaqueNone]
\* a salary object; from and to are 0 where null
Salary(f, t, c) == [present |-> TRUE, from |-> f, to |-> t, currency |-> c]
NoSalary == [present |-> FALSE, from |-> 0, to |-> 0, currency |-> NoneVal]
NoSnippet == [present |-> FALSE, requirement |-> Absent, responsibility |-> Absent]
RawSnippet(req, resp) ==
  [present |-> TRUE, requirement |-> req, responsibility |-> resp]

\* The other fields of the items, by template: a null title (2), a null
\* snippet and employer (7), a null requirement (13), HTML tags in the
\* snippet (1), a salary (1), a very long employer name (4).
ItemName(k) ==
  CASE k = 1 -> S_Python_Dev
    [] k = 2 -> NoneVal
    [] k = 4 -> S_JS_Dev
    [] k = 7 -> S_JAVA
    [] OTHER -> S_Go

ItemSnippet(k) ==
  CASE k = 1 -> RawSnippet(S_tagged_python, S_vue)
    [] k = 4 -> RawSnippet(Absent, <<"J">> \o Tail(S_javascript))
    [] k = 7 -> NoSnippet
    [] k = 13 -> RawSnippet(NoneVal, <<>>)
    [] OTHER -> RawSnippet(<<>>, <<>>)

ItemEmployer(k) ==
  CASE k = 4 -> Employer(Opaque(3900))
    [] k = 7 -> NoEmployer
    [] OTHER -> Employer(Opaque(12))

ItemSalary(k) == IF k = 1 THEN Salary(100000, 0, S_RUR) ELSE NoSalary

\* the raw item with identifier id built from template k
RawItem(id, k, ps, pe) ==
  [id |-> id,
   name |-> ItemName(k),
   alternate_url |-> Opaque(30),
   published_at |-> ItemTemplates(ps, pe)[k].published_at,
   salary |-> ItemSalary(k),
   employer |-> ItemEmployer(k),
   area |-> ItemTemplates(ps, pe)[k].area,
   snippet |-> ItemSnippet(k)]

\* collect_once, the body of `for v in items`: the canonical record of a
\* raw item (emp = v.get("employer") or {}; area = v.get("area") or {};
\* x.get("name") is None if absent; v.get("snippet") or {})
vacancy_info(v) ==
  [id |-> v.id,
   name |-> v.name,
   alternate_url |-> v.alternate_url,
   published_at |-> v.published_at,
   salary |-> v.salary,
   employer |-> [name |-> IF v.employer.present THEN v.employer.name ELSE OpaqueNone],
   area |-> [name |-> IF v.area.present THEN v.area.name ELSE NoneVal],
   snippet |-> IF v.snippet.present
               THEN Snippet(v.snippet.requirement, v.snippet.responsibility)
               ELSE Snippet(Absent, Absent)]

\* ------------------------------------------------------------------------
\* filter_vacancies
\* ------------------------------------------------------------------------
\* the two `continue` tests of the loop body, negated
FilterKeepsExclusiveEnd(vacancy, period_start, period_end) ==
  /\ period_start <= parse_date(vacancy.published_at)
  /\ parse_date(vacancy.published_at) < period_end
  /\ vacancy.area.name # NoneVal
  /\ vacancy.area.name # <<>>
  /\ is_target_city(vacancy.area.name)

FilterKeeps(vacancy, period_start, period_end) ==
  /\ period_start <= parse_date(vacancy.published_at)
  /\ parse_date(vacancy.published_at) <= period_end
  /\ vacancy.area.name # NoneVal
  /\ vacancy.area.name # <<>>
  /\ is_target_city(vacancy.area.name)

\* one insertion of a stable descending sort by parse_date(published_at):
\* v goes behind every element whose key is not smaller
RECURSIVE SortInsertUnstable(_, _)
SortInsertUnstable(v, sorted) ==
  IF sorted = <<>> THEN <<v>>
  ELSE IF parse_date(Head(sorted).published_at) > parse_date(v.published_at)
       THEN <<Head(sorted)>> \o SortInsertUnstable(v, Tail(sorted))
       ELSE <<v>> \o sorted

RECURSIVE SortInsert(_, _)
SortInsert(v, sorted) ==
  IF sorted = <<>> THEN <<v>>
  ELSE IF parse_date(Head(sorted).published_at) >= parse_date(v.published_at)
       THEN <<Head(sorted)>> \o SortInsert(v, Tail(sorted))
       ELSE <<v>> \o sorted

\* filtered.sort(key=..., reverse=True): list.sort is stable, and with
\* reverse=True equal keys keep their original order
RECURSIVE SortByDateDesc(_)
SortByDateDesc(list) ==
  IF list = <<>> THEN <<>>
  ELSE SortInsert(list[Len(list)], SortByDateDesc(SubSeq(list, 1, Len(list) - 1)))

\* the `for vacancy in vacancies` loop: append what is not skipped
RECURSIVE FilterLoop(_, _, _)
FilterLoop(list, period_start, period_end) ==
  IF list = <<>> THEN <<>>
  ELSE (IF FilterKeeps(Head(list), period_start, period_end)
        THEN <<Head(list)>> ELSE <<>>)
       \o FilterLoop(Tail(list), period_start, period_end)

filter_vacancies(list, period_start, period_end) ==
  SortByDateDesc(FilterLoop(list, period_start, period_end))

\* ------------------------------------------------------------------------
\* State
\* ------------------------------------------------------------------------
\* The channel configuration: API_ID is "digits", "other" or "" (unset or
\* empty); the other three values are set and non-empty, or not.
FullEnv ==
  [API_ID |-> "digits", API_HASH |-> TRUE, SESSION_STRING |-> TRUE,
   DEST_CHANNEL |-> TRUE]

Envs ==
  { FullEnv,
    [FullEnv EXCEPT !.API_ID = ""],
    [FullEnv EXCEPT !.API_ID = "other"],
    [FullEnv EXCEPT !.API_HASH = FALSE],
    [FullEnv EXCEPT !.SESSION_STRING = FALSE],
    [FullEnv EXCEPT !.DEST_CHANNEL = FALSE] }

VARIABLES
  pc,                 \* position of the run
  now,                \* datetime.now(timezone.utc) of the run, in hours
  limit,              \* collect_once parameter
  period_start, period_end,
  page, all_vacancies, total_found,
  result,             \* collect_once: what fetch_page returned last
  fpage,              \* fetch_page parameter `page`
  attempt, backoff,   \* fetch_page locals
  wait,               \* argument of the pending time.sleep of fetch_page
  lastResp,           \* the response that the pending sleep follows
  lastReqs,           \* the GET requests issued by the latest attempt
  fetched,            \* indices of the pages fetched successfully, in order
  failed,             \* index of the page fetch_page gave up on, or -1
  filtered_vacancies, final_vacancies,
  report,             \* send_to_telegram parameter
  parts,              \* send_to_telegram local: the chunks
  part_idx,           \* position in parts of the chunk to send next
  sent,               \* what was done on the channel: sends and delays
  tg_client,          \* the global tg_client: "none", "created", "started",
                      \* "disconnected"
  console,            \* what the run has printed: a set of message kinds
  returned,           \* return value of collect_once, -1 before it returns
  env,                \* API_ID, API_HASH, SESSION_STRING, DEST_CHANNEL as read
                      \* from the environment when the module is loaded
  cls                 \* a call of detect_specialization: arguments, result

sendVars == <<report, parts, part_idx, sent>>
runVars == <<tg_client, console, returned, env>>

vars == <<cls, runVars, sendVars, pc, now, limit, period_start, period_end, page, all_vacancies,
          total_found, result, fpage, attempt, backoff, wait, lastResp, lastReqs,
          fetched, failed, filtered_vacancies, final_vacancies>>

Min(a, b) == IF a <= b THEN a ELSE b

\* current times of the modelled runs: 19:00 and 24:00 Moscow time
Nows == {16, 21}
Limits == {1, 2, MaxLimit}

\* fetch_page returned None / {"json": data}
ResultNone == [ok |-> FALSE, items |-> <<>>, pages |-> 0, found |-> 0]
ResultJson(items, pages, found) ==
  [ok |-> TRUE, items |-> items, pages |-> pages, found |-> found]

\* the items of page p when the upstream returns n of them
PageItems(p, n, ps, pe) ==
  [i \in 1..n |-> RawItem(p * 100 + i, ((p * MaxItems + i) % NTemplates) + 1, ps, pe)]

\* the "found" counts of the modelled upstream
Founds == {57}

\* the bodies the upstream may answer a request for page p with
ItemCounts == {0, 1, MaxItems}
Bodies(p, ps, pe) ==
  { ResultJson(PageItems(p, n, ps, pe), t, f) :
      n \in ItemCounts, t \in {0, p + 1, p + 2}, f \in Founds }

\* Retry-After header of a 429 response: absent, a string of digits, or
\* another string (an HTTP date, "1.5", ...)
NoRetryAfter == [kind |-> "absent", val |-> 0]
RetryAfters == { NoRetryAfter, [kind |-> "digits", val |-> 5],
                 [kind |-> "other", val |-> 0] }

\* what the attempt met: status "429" with its Retry-After header, "error"
\* for a RequestException, "none" when no sleep is pending
Resp(status, ra) == [status |-> status, ra |-> ra]
NoResp == Resp("none", NoRetryAfter)

\* fetch_page on 429: wait = float(ra) if ra and ra.isdigit() else backoff
RetryWaitIgnoresHeader(ra, b) == b

RetryWait(ra, b) == IF ra.kind = "digits" THEN ra.val ELSE b

\* fetch_page: backoff = min(backoff * 2, 60)
NextBackoff(b) == Min(b * 2, BACKOFF_CAP)

Req(p, fb) == [page |-> p, fallback |-> fb]

CollectInit ==
  /\ pc = "start"
  /\ now = 16
  /\ limit \in Limits
  /\ period_start = 0 /\ period_end = 0
  /\ page = 0 /\ all_vacancies = <<>> /\ total_found = 0
  /\ result = ResultNone
  /\ fpage = 0 /\ attempt = 0 /\ backoff = 0 /\ wait = 0 /\ lastResp = NoResp
  /\ lastReqs = <<>> /\ fetched = <<>> /\ failed = -1
  /\ filtered_vacancies = <<>> /\ final_vacancies = <<>>
  /\ tg_client = "none" /\ console = {} /\ returned = -1 /\ cls = NoCall
  /\ env = FullEnv
  /\ report = <<>> /\ parts = <<>> /\ part_idx = 0 /\ sent = <<>>

\* collect_once up to the paging loop; os.makedirs is its last statement
\* and is not inside a try: when it raises, main() logs the error and exits
\* with status 1
Start ==
  /\ pc = "start"
  /\ period_start' = get_target_period(now)[1]
  /\ period_end' = get_target_period(now)[2]
  /\ page' = 0 /\ all_vacancies' = <<>> /\ total_found' = 0
  /\ \E made \in BOOLEAN :
        /\ pc' = IF made THEN "loop" ELSE "fatal"
        /\ console' = IF made THEN console ELSE console \cup {"fatal_error"}
  /\ UNCHANGED <<cls, tg_client, returned, env, sendVars, now, limit, result, fpage, attempt, backoff, wait, lastResp, lastReqs,
                 fetched, failed, filtered_vacancies, final_vacancies>>

\* the `while` condition of the paging loop
LoopGuardInclusive(n, lim, p) ==
  n <= lim * ACCUMULATION_FACTOR /\ p <= PAGE_CEILING

LoopGuard(n, lim, p) ==
  n < lim * ACCUMULATION_FACTOR /\ p < PAGE_CEILING

\* the `while` test, and on entry the call fetch_page(session, page, per_page)
LoopTest ==
  /\ pc = "loop"
  /\ IF LoopGuard(Len(all_vacancies), limit, page)
     THEN /\ fpage' = page
          /\ attempt' = 1
          /\ backoff' = INITIAL_BACKOFF
          /\ pc' = "attempt"
     ELSE /\ pc' = "filter"
          /\ UNCHANGED <<fpage, attempt, backoff>>
  /\ UNCHANGED <<cls, runVars, sendVars, now, limit, period_start, period_end, page, all_vacancies,
                 total_found, result, wait, lastResp, lastReqs, fetched, failed,
                 filtered_vacancies, final_vacancies>>

\* fetch_page returns {"json": body}; its locals end with the call
FetchReturnsBody(body) ==
  /\ result' = body
  /\ fetched' = Append(fetched, fpage)
  /\ pc' = "page"
  /\ attempt' = 0 /\ backoff' = 0
  /\ UNCHANGED <<wait, lastResp, failed>>

\* fetch_page: the handler of requests.exceptions.RequestException
FetchException ==
  IF attempt = MAX_PAGE_ATTEMPTS
  THEN /\ result' = ResultNone
       /\ failed' = fpage
       /\ pc' = "page"
       /\ attempt' = 0 /\ backoff' = 0
       /\ UNCHANGED <<wait, lastResp, fetched>>
  ELSE /\ wait' = backoff
       /\ lastResp' = Resp("error", NoRetryAfter)
       /\ pc' = "sleep"
       /\ UNCHANGED <<attempt, backoff, result, fetched, failed>>

\* the page index the requests of attempt a of fetch_page(.., p, ..) carry
RequestPageAdvancing(p, a) == p + a - 1

RequestPage(p, a) == p

\* fetch_page, one iteration of the attempt loop up to its sleep or return.
\* A 2xx body is a JSON object; a missing "items" is the case of no items
\* and a missing "pages" the case of 0 pages.
Attempt200 ==
  /\ pc = "attempt"
  /\ lastReqs' = <<Req(RequestPage(fpage, attempt), FALSE)>>
  /\ \E body \in Bodies(fpage, period_start, period_end) : FetchReturnsBody(body)
  /\ UNCHANGED <<cls, runVars, sendVars, now, limit, period_start, period_end, page, all_vacancies,
                 total_found, fpage, filtered_vacancies, final_vacancies>>

Attempt400 ==
  /\ pc = "attempt"
  /\ lastReqs' = <<Req(RequestPage(fpage, attempt), FALSE),
                   Req(RequestPage(fpage, attempt), TRUE)>>
  /\ \/ \E body \in Bodies(fpage, period_start, period_end) : FetchReturnsBody(body)
     \/ FetchException
  /\ UNCHANGED <<cls, runVars, sendVars, now, limit, period_start, period_end, page, all_vacancies,
                 total_found, fpage, filtered_vacancies, final_vacancies>>

Attempt429 ==
  /\ pc = "attempt"
  /\ lastReqs' = <<Req(RequestPage(fpage, attempt), FALSE)>>
  /\ \E ra \in RetryAfters :
        /\ wait' = RetryWait(ra, backoff)
        /\ lastResp' = Resp("429", ra)
  /\ pc' = "sleep"
  /\ UNCHANGED <<cls, runVars, sendVars, now, limit, period_start, period_end, page, all_vacancies,
                 total_found, result, fpage, attempt, backoff, fetched, failed,
                 filtered_vacancies, final_vacancies>>

\* timeout, connection error, or raise_for_status on another status
AttemptError ==
  /\ pc = "attempt"
  /\ lastReqs' = <<Req(RequestPage(fpage, attempt), FALSE)>>
  /\ FetchException
  /\ UNCHANGED <<cls, runVars, sendVars, now, limit, period_start, period_end, page, all_vacancies,
                 total_found, fpage, filtered_vacancies, final_vacancies>>

\* the number of attempts after which the `for attempt` loop ends
AttemptBudgetUnbounded == MAX_PAGE_ATTEMPTS + MAX_PAGE_ATTEMPTS

AttemptBudget == MAX_PAGE_ATTEMPTS

\* fetch_page: time.sleep(wait), backoff = min(backoff * 2, 60), and the next
\* iteration of `for attempt in range(1, MAX_PAGE_ATTEMPTS + 1)`, which falls
\* through to `return None` when the range is used up.  wait is 0 whenever
\* no sleep is pending; the locals are 0 outside a call.
RetrySleep ==
  /\ pc = "sleep"
  /\ wait' = 0
  /\ lastResp' = NoResp
  /\ IF attempt < AttemptBudget
     THEN /\ backoff' = NextBackoff(backoff)
          /\ attempt' = attempt + 1
          /\ pc' = "attempt"
          /\ UNCHANGED <<result, failed>>
     ELSE /\ result' = ResultNone
          /\ failed' = fpage
          /\ pc' = "page"
          /\ attempt' = 0 /\ backoff' = 0
  /\ UNCHANGED <<cls, runVars, sendVars, now, limit, period_start, period_end, page, all_vacancies,
                 total_found, fpage, lastReqs, fetched,
                 filtered_vacancies, final_vacancies>>

\* collect_once: `if result is None: break`
StopOnFailureSkipsPage ==
  /\ pc = "page"
  /\ ~result.ok
  /\ page' = page + 1
  /\ pc' = "loop"
  /\ UNCHANGED <<cls, runVars, sendVars, now, limit, period_start, period_end, all_vacancies,
                 total_found, result, fpage, attempt, backoff, wait, lastResp, lastReqs,
                 fetched, failed, filtered_vacancies, final_vacancies>>

StopOnFailure ==
  /\ pc = "page"
  /\ ~result.ok
  /\ pc' = "filter"
  /\ UNCHANGED <<cls, runVars, sendVars, now, limit, period_start, period_end, page, all_vacancies,
                 total_found, result, fpage, attempt, backoff, wait, lastResp, lastReqs,
                 fetched, failed, filtered_vacancies, final_vacancies>>

\* collect_once: total_found on page 0, then `if not items: break`
StopOnEmpty ==
  /\ pc = "page"
  /\ result.ok
  /\ result.items = <<>>
  /\ total_found' = IF page = 0 THEN result.found ELSE total_found
  /\ pc' = "filter"
  /\ UNCHANGED <<cls, runVars, sendVars, now, limit, period_start, period_end, page, all_vacancies,
                 result, fpage, attempt, backoff, wait, lastResp, lastReqs,
                 fetched, failed, filtered_vacancies, final_vacancies>>

\* the test that ends the loop after page `p` (already incremented)
LastPageReachedLate(p, pages_total) == p > pages_total

LastPageReached(p, pages_total) == p >= pages_total

\* collect_once: a page with items: normalise and append them, page += 1,
\* and leave the loop if the reported number of pages is reached
AccumulatePage ==
  /\ pc = "page"
  /\ result.ok
  /\ result.items # <<>>
  /\ total_found' = IF page = 0 THEN result.found ELSE total_found
  /\ all_vacancies' = all_vacancies \o
        [i \in 1..Len(result.items) |-> vacancy_info(result.items[i])]
  /\ page' = page + 1
  /\ pc' = IF LastPageReached(page + 1, result.pages) THEN "filter" ELSE "pause"
  /\ UNCHANGED <<cls, runVars, sendVars, now, limit, period_start, period_end, result, fpage, attempt,
                 backoff, wait, lastResp, lastReqs, fetched, failed,
                 filtered_vacancies, final_vacancies>>

\* collect_once: time.sleep(PAGE_PAUSE) at the end of the loop body
PagePause ==
  /\ pc = "pause"
  /\ pc' = "loop"
  /\ UNCHANGED <<cls, runVars, sendVars, now, limit, period_start, period_end, page, all_vacancies,
                 total_found, result, fpage, attempt, backoff, wait, lastResp, lastReqs,
                 fetched, failed, filtered_vacancies, final_vacancies>>

\* collect_once: filtered_vacancies = filter_vacancies(all_vacancies, ...)
FilterVacancies ==
  /\ pc = "filter"
  /\ filtered_vacancies' = filter_vacancies(all_vacancies, period_start, period_end)
  /\ pc' = "truncate"
  /\ UNCHANGED <<cls, runVars, sendVars, now, limit, period_start, period_end, page, all_vacancies,
                 total_found, result, fpage, attempt, backoff, wait, lastResp, lastReqs,
                 fetched, failed, final_vacancies>>

\* collect_once: final_vacancies = filtered_vacancies[:limit]
TruncateBeforeFilter ==
  /\ pc = "truncate"
  /\ final_vacancies' =
        filter_vacancies(SubSeq(all_vacancies, 1, Min(limit, Len(all_vacancies))),
                         period_start, period_end)
  /\ pc' = "render"
  /\ UNCHANGED <<cls, runVars, sendVars, now, limit, period_start, period_end, page, all_vacancies,
                 total_found, result, fpage, attempt, backoff, wait, lastResp, lastReqs,
                 fetched, failed, filtered_vacancies>>

Truncate ==
  /\ pc = "truncate"
  /\ final_vacancies' = SubSeq(filtered_vacancies, 1, Min(limit, Len(filtered_vacancies)))
  /\ pc' = "render"
  /\ UNCHANGED <<cls, runVars, sendVars, now, limit, period_start, period_end, page, all_vacancies,
                 total_found, result, fpage, attempt, backoff, wait, lastResp, lastReqs,
                 fetched, failed, filtered_vacancies>>

Next ==
  \/ Start
  \/ LoopTest
  \/ Attempt200
  \/ Attempt400
  \/ Attempt429
  \/ AttemptError
  \/ RetrySleep
  \/ StopOnFailure
  \/ StopOnEmpty
  \/ AccumulatePage
  \/ PagePause
  \/ FilterVacancies
  \/ Truncate

Spec == CollectInit /\ [][Next]_vars

\* ------------------------------------------------------------------------
\* filter_vacancies on its own, for every list of up to MaxVac records
\* ------------------------------------------------------------------------
RECURSIVE ListsUpTo(_, _)
ListsUpTo(S, n) ==
  IF n = 0 THEN {<<>>}
  ELSE ListsUpTo(S, n - 1) \cup
       { Append(l, x) : l \in { m \in ListsUpTo(S, n - 1) : Len(m) = n - 1 }, x \in S }

FilterInit ==
  /\ pc = "filter"
  /\ now \in Nows
  /\ limit = 2
  /\ period_start = get_target_period(now)[1]
  /\ period_end = get_target_period(now)[2]
  /\ all_vacancies \in
       ListsUpTo({ vacancy_info(RawItem(k, k, period_start, period_end)) :
                   k \in 1..NTemplates }, MaxVac)
  /\ page = 0 /\ total_found = 0
  /\ result = ResultNone
  /\ fpage = 0 /\ attempt = 0 /\ backoff = 0 /\ wait = 0 /\ lastResp = NoResp
  /\ lastReqs = <<>> /\ fetched = <<>> /\ failed = -1
  /\ filtered_vacancies = <<>> /\ final_vacancies = <<>>
  /\ tg_client = "none" /\ console = {} /\ returned = -1 /\ cls = NoCall
  /\ env = FullEnv
  /\ report = <<>> /\ parts = <<>> /\ part_idx = 0 /\ sent = <<>>

FilterNext ==
  \/ FilterVacancies
  \/ Truncate

SpecFilter == FilterInit /\ [][FilterNext]_vars

\* ------------------------------------------------------------------------
\* send_to_telegram
\* ------------------------------------------------------------------------
\* A string is a sequence of tokens: the newline character, or a run of
\* `len` characters other than newline, told apart by `id`.
NL == [nl |-> TRUE, id |-> 0, len |-> 1]
Text(i, n) == [nl |-> FALSE, id |-> i, len |-> n]

\* len(s)
RECURSIVE StrLen(_)
StrLen(s) == IF s = <<>> THEN 0 ELSE Head(s).len + StrLen(Tail(s))

\* s.split('\n')
RECURSIVE SplitLines(_)
SplitLines(s) ==
  IF \A k \in 1..Len(s) : ~s[k].nl
  THEN <<s>>
  ELSE LET k == CHOOSE j \in 1..Len(s) : s[j].nl /\ \A h \in 1..(j - 1) : ~s[h].nl
       IN  <<SubSeq(s, 1, k - 1)>> \o SplitLines(SubSeq(s, k + 1, Len(s)))

\* "\n".join(lines)
RECURSIVE JoinLines(_)
JoinLines(lines) ==
  IF Len(lines) = 0 THEN <<>>
  ELSE IF Len(lines) = 1 THEN lines[1]
  ELSE lines[1] \o <<NL>> \o JoinLines(Tail(lines))

\* what starts the next chunk when `line` does not fit into the current one
ChunkRestartDropsLine(line) == <<>>

ChunkRestart(line) == line \o <<NL>>

\* the test `len(current_part + line + '\n') > 4000`
ChunkOverflows(current_part, line) ==
  StrLen(current_part \o line \o <<NL>>) > MESSAGE_LIMIT

\* the loop `for line in report.split('\n')` from the state (parts,
\* current_part), followed by `if current_part: parts.append(current_part)`
RECURSIVE ChunkLoop(_, _, _)
ChunkLoop(lines, ps, current_part) ==
  IF lines = <<>>
  THEN IF current_part # <<>> THEN Append(ps, current_part) ELSE ps
  ELSE IF ChunkOverflows(current_part, Head(lines))
       THEN ChunkLoop(Tail(lines), Append(ps, current_part), ChunkRestart(Head(lines)))
       ELSE ChunkLoop(Tail(lines), ps, current_part \o Head(lines) \o <<NL>>)

Chunks(rep) == ChunkLoop(SplitLines(rep), <<>>, <<>>)

SendEvent(msg) == [op |-> "send", msg |-> msg, secs |-> 0]
SleepEvent(secs) == [op |-> "sleep", msg |-> <<>>, secs |-> secs]

\* where send_to_telegram goes after the chunk at position idx was sent
AfterSendNoDelay(idx, ps) ==
  IF idx < Len(ps) THEN "send_next" ELSE "dispatched"

AfterSend(idx, ps) ==
  IF idx < Len(ps) THEN "chunk_sleep" ELSE "dispatched"

\* `if not tg_client or not DEST_CHANNEL`, negated
SendReady == tg_client # "none" /\ env.DEST_CHANNEL

\* no client or no destination: the skip is printed, nothing is sent
SendSkip ==
  /\ pc = "dispatch" /\ ~SendReady
  /\ console' = console \cup {"not_initialized"}
  /\ pc' = "disconnect"
  /\ UNCHANGED <<cls, tg_client, returned, env, sendVars, now, limit, period_start,
                 period_end, page, all_vacancies, total_found, result, fpage,
                 attempt, backoff, wait, lastResp, lastReqs, fetched, failed,
                 filtered_vacancies, final_vacancies>>

\* the report fits: one send_message of the whole report
SendWhole ==
  /\ pc = "dispatch" /\ SendReady
  /\ ~(StrLen(report) > MESSAGE_LIMIT)
  /\ sent' = Append(sent, SendEvent(report))
  /\ \E ok \in BOOLEAN : pc' = IF ok THEN "dispatched" ELSE "send_error"
  /\ UNCHANGED <<report, parts, part_idx>>
  /\ UNCHANGED <<cls, runVars, now, limit, period_start, period_end, page, all_vacancies,
                 total_found, result, fpage, attempt, backoff, wait, lastResp, lastReqs,
                 fetched, failed, filtered_vacancies, final_vacancies>>

\* the report is too long: build the chunks, send parts[0]
SplitAndSendFirst ==
  /\ pc = "dispatch" /\ SendReady
  /\ StrLen(report) > MESSAGE_LIMIT
  /\ parts' = Chunks(report)
  /\ sent' = Append(sent, SendEvent(parts'[1]))
  /\ part_idx' = 2
  /\ \E ok \in BOOLEAN : pc' = IF ok THEN AfterSend(1, parts') ELSE "send_error"
  /\ UNCHANGED report
  /\ UNCHANGED <<cls, runVars, now, limit, period_start, period_end, page, all_vacancies,
                 total_found, result, fpage, attempt, backoff, wait, lastResp, lastReqs,
                 fetched, failed, filtered_vacancies, final_vacancies>>

\* `for part in parts[1:]`: await asyncio.sleep(1)
ChunkSleep ==
  /\ pc = "chunk_sleep"
  /\ sent' = Append(sent, SleepEvent(CHUNK_DELAY))
  /\ pc' = "send_next"
  /\ UNCHANGED <<report, parts, part_idx>>
  /\ UNCHANGED <<cls, runVars, now, limit, period_start, period_end, page, all_vacancies,
                 total_found, result, fpage, attempt, backoff, wait, lastResp, lastReqs,
                 fetched, failed, filtered_vacancies, final_vacancies>>

\* `for part in parts[1:]`: send_message(part)
SendNext ==
  /\ pc = "send_next"
  /\ sent' = Append(sent, SendEvent(parts[part_idx]))
  /\ part_idx' = part_idx + 1
  /\ \E ok \in BOOLEAN : pc' = IF ok THEN AfterSend(part_idx, parts) ELSE "send_error"
  /\ UNCHANGED <<report, parts>>
  /\ UNCHANGED <<cls, runVars, now, limit, period_start, period_end, page, all_vacancies,
                 total_found, result, fpage, attempt, backoff, wait, lastResp, lastReqs,
                 fetched, failed, filtered_vacancies, final_vacancies>>

\* the end of send_to_telegram: the two lines printed after the last send,
\* or the line printed by `except Exception`
SendReport ==
  /\ pc \in {"dispatched", "send_error"}
  /\ console' = console \cup {IF pc = "dispatched" THEN "report_sent" ELSE "send_failed"}
  /\ pc' = "disconnect"
  /\ UNCHANGED <<cls, tg_client, returned, env, sendVars, now, limit, period_start,
                 period_end, page, all_vacancies, total_found, result, fpage,
                 attempt, backoff, wait, lastResp, lastReqs, fetched, failed,
                 filtered_vacancies, final_vacancies>>

\* lengths of the lines of the modelled reports
LineLens == {0, 1, 1999, 2000, 3999, 4000}

\* the reports of up to MaxLines lines with these lengths
ReportOfLens(lens) ==
  JoinLines([i \in 1..Len(lens) |->
               IF lens[i] = 0 THEN <<>> ELSE <<Text(i, lens[i])>>])

Reports ==
  { ReportOfLens(lens) : lens \in ListsUpTo(LineLens, MaxLines) } \ {<<>>}

SendInit ==
  /\ pc = "dispatch"
  /\ report \in Reports
  /\ parts = <<>> /\ part_idx = 0 /\ sent = <<>>
  /\ now = 16 /\ limit = 1
  /\ period_start = 0 /\ period_end = 0
  /\ page = 0 /\ all_vacancies = <<>> /\ total_found = 0
  /\ result = ResultNone
  /\ fpage = 0 /\ attempt = 0 /\ backoff = 0 /\ wait = 0 /\ lastResp = NoResp
  /\ lastReqs = <<>> /\ fetched = <<>> /\ failed = -1
  /\ filtered_vacancies = <<>> /\ final_vacancies = <<>>
  /\ console = {} /\ returned = -1 /\ cls = NoCall
  /\ \E cfg \in {<<"started", FullEnv>>, <<"none", FullEnv>>,
                 <<"started", [FullEnv EXCEPT !.DEST_CHANNEL = FALSE]>>} :
        tg_client = cfg[1] /\ env = cfg[2]

DispatchNext ==
  \/ SendSkip
  \/ SendWhole
  \/ SplitAndSendFirst
  \/ ChunkSleep
  \/ SendNext
  \/ SendReport

SpecSend == SendInit /\ [][DispatchNext]_vars

\* ------------------------------------------------------------------------
\* generate_beautiful_report
\* ------------------------------------------------------------------------
\* A line of the report is the empty string or one run of characters,
\* identified by the statement that made it and by what it was made from.
EmptyLine == <<>>
Line(src, key, len) == <<Text(1000 * key + src, len)>>

\* len(str(n)), n >= 0
RECURSIVE Digits(_)
Digits(n) == IF n < 10 THEN 1 ELSE 1 + Digits(n \div 10)

\* len(f"{n:,}"): a separator after every three digits
GroupedLen(n) == Digits(n) + (Digits(n) - 1) \div 3

\* length of the string format_salary returns
format_salary(salary_data) ==
  IF ~salary_data.present THEN 12
  ELSE LET amounts ==
             (IF salary_data.from # 0 THEN <<GroupedLen(salary_data.from)>> ELSE <<>>)
             \o (IF salary_data.to # 0 THEN <<GroupedLen(salary_data.to)>> ELSE <<>>)
           salary_str ==
             IF Len(amounts) = 2 THEN amounts[1] + 3 + amounts[2]
             ELSE IF Len(amounts) = 1 THEN amounts[1] ELSE 0
           symbol ==
             IF salary_data.currency = NoneVal THEN 4
             ELSE IF salary_data.currency \in
                       {S_RUR, <<"R", "U", "B">>, <<"U", "S", "D">>, <<"E", "U", "R">>}
                  THEN 1
                  ELSE Len(salary_data.currency)
       IN  2 + salary_str + 1 + symbol

\* length of the string format_date returns: "DD.MM.YYYY HH:MM" after a
\* two-character prefix; parse_date's datetime.min prints its year as "1"
format_date(date_string) == IF date_string.kind = "iso" THEN 18 ELSE 15

\* re.sub(r'<[^>]+>', '', text)
RECURSIVE StripTags(_)
StripTags(text) ==
  IF text = <<>> THEN <<>>
  ELSE IF /\ text[1] = "<"
          /\ \E j \in 3..Len(text) :
                text[j] = ">" /\ \A h \in 2..(j - 1) : text[h] # ">"
       THEN LET j == CHOOSE c \in 3..Len(text) :
                        text[c] = ">" /\ \A h \in 2..(c - 1) : text[h] # ">"
            IN  StripTags(SubSeq(text, j + 1, Len(text)))
       ELSE <<text[1]>> \o StripTags(Tail(text))

clean_html(text) == IF text = NoneVal \/ text = <<>> THEN <<>> ELSE StripTags(text)

\* the UTC calendar day of an instant
DateOf(t) == t \div DAY_HOURS

\* the mark appended to the date of a fresh record
FreshMarkLen(vacancy_date, now_utc) ==
  IF now_utc - vacancy_date <= 1 THEN 2
  ELSE IF now_utc - vacancy_date <= 6 THEN 2
  ELSE IF DateOf(vacancy_date) = DateOf(now_utc) THEN 2
  ELSE 0

\* length of the category string detect_specialization returns, and of its
\* last word
SpecLen(spec) ==
  CASE spec = "Python" -> 20 [] spec = "Java" -> 18
    [] spec = "Frontend" -> 22 [] OTHER -> 16

SpecLastWordLen(spec) == IF spec = "IT" THEN 14 ELSE 11

RECURSIVE SumOver(_, _)
SumOver(S, f) ==
  IF S = {} THEN 0
  ELSE LET x == CHOOSE y \in S : TRUE IN f[x] + SumOver(S \ {x}, f)

\* len(', '.join(f'{key} ({count})' for key, count in Counter(keys).most_common()))
\* where keylen[k] is the length of the key as printed
CounterJoinLen(keys, keylen) ==
  LET D == { keys[i] : i \in 1..Len(keys) }
      n == [k \in D |-> Cardinality({ i \in 1..Len(keys) : keys[i] = k })]
  IN  IF D = {} THEN 0
      ELSE SumOver(D, [k \in D |-> keylen[k] + 2 + Digits(n[k]) + 1])
           + 2 * (Cardinality(D) - 1)

\* len(str(x)) of a string or None
StrOrNoneLen(x) == IF x = NoneVal THEN 4 ELSE Len(x)

\* the optional line of a snippet text: more than 5 characters after the
\* tags are removed, cut to 120 characters and "..."
SnippetLine(src, key, prefix, text) ==
  LET cleaned == clean_html(IF text = Absent THEN <<>> ELSE text)
  IN  IF Len(cleaned) > 5
      THEN <<Line(src, key, prefix + (IF Len(cleaned) > 120 THEN 123 ELSE Len(cleaned)))>>
      ELSE <<>>

\* the lines of the section of the i-th record
RecordLines(i, vacancy, now_utc) ==
  LET key == vacancy.id + 1
      specialization == detect_specialization(vacancy.name, vacancy.snippet)
  IN  << Line(342, key, 6 + Digits(i) + SpecLen(specialization)),
         Line(343, key, 4 + Len(vacancy.name)),
         Line(344, key, 30),
         Line(347, key, 2 + vacancy.alternate_url.len),
         Line(364, key, format_date(vacancy.published_at)
                        + FreshMarkLen(parse_date(vacancy.published_at), now_utc)),
         Line(367, key, format_salary(vacancy.salary)),
         Line(370, key, 16 + vacancy.employer.name.len),
         Line(371, key, 13 + StrOrNoneLen(vacancy.area.name)) >>
      \o SnippetLine(378, key, 18, vacancy.snippet.requirement)
      \o SnippetLine(385, key, 19, vacancy.snippet.responsibility)
      \o << EmptyLine, Line(388, key, 30), EmptyLine >>

\* detect_specialization raises for one of the records: the list
\* comprehension of the statistics does not complete
RenderRaises(vacancies) ==
  \E i \in 1..Len(vacancies) : DetectRaises(vacancies[i].name, vacancies[i].snippet)

\* the list `report` of a non-empty result
ReportLines(vacancies, found, pe, now_utc) ==
  LET n == Len(vacancies)
      cities == [i \in 1..n |-> vacancies[i].area.name]
      specializations ==
        [i \in 1..n |-> detect_specialization(vacancies[i].name, vacancies[i].snippet)]
      city_len == [c \in { cities[i] : i \in 1..n } |-> StrOrNoneLen(c)]
      spec_len == [c \in { specializations[i] : i \in 1..n } |-> SpecLastWordLen(c)]
      with_salary == Cardinality({ i \in 1..n : vacancies[i].salary.present })
      today_count ==
        Cardinality({ i \in 1..n :
                        DateOf(parse_date(vacancies[i].published_at)) = DateOf(now_utc) })
      recent_count ==
        Cardinality({ i \in 1..n : now_utc - parse_date(vacancies[i].published_at) <= 6 })
      RECURSIVE Sections(_)
      Sections(i) ==
        IF i > n THEN <<>> ELSE RecordLines(i, vacancies[i], now_utc) \o Sections(i + 1)
  IN  << Line(320, 0, 23), Line(321, 0, 30), EmptyLine,
         Line(324, 0, 17),
         Line(325, 0, 33 + Digits(found)),
         Line(326, 0, 28 + Digits(n)),
         Line(327, 0, 24 + Digits(with_salary)),
         Line(328, pe, 14 + 35),
         Line(331, 0, 17 + CounterJoinLen(specializations, spec_len)),
         EmptyLine, Line(334, 0, 15), Line(335, 0, 30), EmptyLine >>
      \o Sections(1)
      \o << Line(392, 0, 19), Line(393, 0, 25),
            Line(406, vacancies[1].id + 1, 19 + 16 + 16) >>
      \o (IF today_count > 0 THEN <<Line(414, 0, 28 + Digits(today_count))>> ELSE <<>>)
      \o (IF recent_count > 0 THEN <<Line(416, 0, 28 + Digits(recent_count))>> ELSE <<>>)
      \o << Line(418, 0, 10 + CounterJoinLen(cities, city_len)),
            Line(419, 0, 17 + CounterJoinLen(specializations, spec_len)),
            EmptyLine, Line(422, now_utc, 22 + 18), Line(423, 0, 21) >>

\* the one line returned for an empty result; it has no comma to replace
EmptyReportUnderHeader(pe) ==
  JoinLines(<<Line(320, 0, 23), Line(321, 0, 30), Line(304, pe, 48 + 35)>>)

EmptyReport(pe) == Line(304, pe, 48 + 35)

generate_beautiful_report(vacancies, found, ps, pe, now_utc) ==
  IF vacancies = <<>> THEN EmptyReport(pe)
  ELSE JoinLines(ReportLines(vacancies, found, pe, now_utc))

\* ------------------------------------------------------------------------
\* collect_once from the filter to its return
\* ------------------------------------------------------------------------
\* report = generate_beautiful_report(...); an exception raised in it leaves
\* collect_once, and main() logs it and exits with status 1
Render ==
  /\ pc = "render"
  /\ IF RenderRaises(final_vacancies)
     THEN /\ pc' = "fatal"
          /\ console' = console \cup {"fatal_error"}
          /\ UNCHANGED report
     ELSE /\ pc' = "save"
          /\ report' = generate_beautiful_report(final_vacancies, total_found,
                                                  period_start, period_end, now)
          /\ UNCHANGED console
  /\ UNCHANGED <<cls, tg_client, returned, env, parts, part_idx, sent, now, limit, period_start, period_end, page,
                 all_vacancies, total_found, result, fpage, attempt, backoff,
                 wait, lastResp, lastReqs, fetched, failed, filtered_vacancies,
                 final_vacancies>>

\* the report is written to out_path; when that raises, the error is logged
\* and the report is printed between two separator lines
Save ==
  /\ pc = "save"
  /\ \E written \in BOOLEAN :
        console' = console \cup {IF written THEN "report_saved" ELSE "report_printed"}
  /\ pc' = "init_telegram"
  /\ UNCHANGED <<cls, tg_client, returned, env, sendVars, now, limit, period_start, period_end, page,
                 all_vacancies, total_found, result, fpage, attempt, backoff,
                 wait, lastResp, lastReqs, fetched, failed, filtered_vacancies,
                 final_vacancies>>

\* check_telegram_env: the names of the missing values are printed, or that
\* API_ID is no number
EnvComplete ==
  env.API_ID # "" /\ env.API_HASH /\ env.SESSION_STRING /\ env.DEST_CHANNEL

check_telegram_env == EnvComplete /\ env.API_ID = "digits"

\* `if telegram_ready ...: await send_to_telegram(...)`
AfterInitAlwaysSends(telegram_ready) == "dispatch"

AfterInit(telegram_ready) == IF telegram_ready THEN "dispatch" ELSE "disconnect"

\* telegram_ready = await init_telegram(), and the `if telegram_ready`:
\* the client is constructed and started; an exception of either is printed
\* and gives False
InitTelegram ==
  /\ pc = "init_telegram"
  /\ IF ~check_telegram_env
     THEN /\ console' = console \cup
                 {IF EnvComplete THEN "api_id_not_number" ELSE "env_missing"}
          /\ pc' = AfterInit(FALSE)
          /\ UNCHANGED tg_client
     ELSE \E outcome \in {"constructor_raises", "start_raises", "started"} :
            /\ tg_client' = CASE outcome = "constructor_raises" -> tg_client
                               [] outcome = "start_raises" -> "created"
                               [] OTHER -> "started"
            /\ console' = console \cup
                   {IF outcome = "started" THEN "init_ok" ELSE "init_failed"}
            /\ pc' = AfterInit(outcome = "started")
  /\ UNCHANGED <<cls, returned, env, sendVars, now, limit, period_start, period_end, page,
                 all_vacancies, total_found, result, fpage, attempt, backoff,
                 wait, lastResp, lastReqs, fetched, failed, filtered_vacancies,
                 final_vacancies>>

\* `if tg_client: await tg_client.disconnect()`, then the statistics are
\* printed
DisconnectKeepsClient(client) == client

Disconnect(client) == IF client # "none" THEN "disconnected" ELSE client

CloseClient ==
  /\ pc = "disconnect"
  /\ tg_client' = Disconnect(tg_client)
  /\ console' = console \cup
         (IF tg_client # "none" THEN {"client_disconnected"} ELSE {}) \cup {"statistics"}
  /\ pc' = "return"
  /\ UNCHANGED <<cls, returned, env, sendVars, now, limit, period_start, period_end, page,
                 all_vacancies, total_found, result, fpage, attempt, backoff,
                 wait, lastResp, lastReqs, fetched, failed, filtered_vacancies,
                 final_vacancies>>

\* return len(final_vacancies)
Return ==
  /\ pc = "return"
  /\ returned' = Len(final_vacancies)
  /\ pc' = "done"
  /\ UNCHANGED <<cls, tg_client, console, env, sendVars, now, limit, period_start, period_end, page,
                 all_vacancies, total_found, result, fpage, attempt, backoff,
                 wait, lastResp, lastReqs, fetched, failed, filtered_vacancies,
                 final_vacancies>>

\* the states after the paging loop: every list of up to MaxRun records of
\* these templates, with every channel configuration
RunTemplates == {1, 2, 4, 5, 7, 13}

RunInit ==
  /\ pc = "filter"
  /\ now = 16
  /\ limit \in {1, 2}
  /\ period_start = get_target_period(now)[1]
  /\ period_end = get_target_period(now)[2]
  /\ all_vacancies \in
       ListsUpTo({ vacancy_info(RawItem(k, k, period_start, period_end)) :
                   k \in RunTemplates }, MaxRun)
  /\ page = 1 /\ total_found = 57
  /\ result = ResultNone
  /\ fpage = 0 /\ attempt = 0 /\ backoff = 0 /\ wait = 0 /\ lastResp = NoResp
  /\ lastReqs = <<>> /\ fetched = <<>> /\ failed = -1
  /\ filtered_vacancies = <<>> /\ final_vacancies = <<>>
  /\ tg_client = "none" /\ console = {} /\ returned = -1 /\ cls = NoCall
  /\ env \in Envs
  /\ report = <<>> /\ parts = <<>> /\ part_idx = 0 /\ sent = <<>>

RunNext ==
  \/ FilterVacancies
  \/ Truncate
  \/ Render
  \/ Save
  \/ InitTelegram
  \/ SendWhole
  \/ SplitAndSendFirst
  \/ ChunkSleep
  \/ SendNext
  \/ SendReport
  \/ CloseClient
  \/ Return

SpecRun == RunInit /\ [][RunNext]_vars

\* ------------------------------------------------------------------------
\* collect_once up to the rendered report, for every hour of the first days
\* ------------------------------------------------------------------------
PeriodInit ==
  /\ pc = "start"
  /\ now \in 0..MaxNow
  /\ limit = 1
  /\ period_start = 0 /\ period_end = 0
  /\ page = 0 /\ all_vacancies = <<>> /\ total_found = 0
  /\ result = ResultNone
  /\ fpage = 0 /\ attempt = 0 /\ backoff = 0 /\ wait = 0 /\ lastResp = NoResp
  /\ lastReqs = <<>> /\ fetched = <<>> /\ failed = -1
  /\ filtered_vacancies = <<>> /\ final_vacancies = <<>>
  /\ tg_client = "none" /\ console = {} /\ returned = -1 /\ cls = NoCall
  /\ env = FullEnv
  /\ report = <<>> /\ parts = <<>> /\ part_idx = 0 /\ sent = <<>>

PeriodNext ==
  \/ Next
  \/ Render

SpecPeriod == PeriodInit /\ [][PeriodNext]_vars

\* ------------------------------------------------------------------------
\* detect_specialization on its own, for titles and snippets of a small
\* vocabulary
\* ------------------------------------------------------------------------
ClassifyNames ==
  { <<>>,
    <<"P", "y", "t", "h", "o", "n", " ", "D", "e", "v">>,
    <<"J", "A", "V", "A">>,
    <<"J", "a", "v", "a", "S", "c", "r", "i", "p", "t">>,
    <<"J", "S", " ", "D", "e", "v">>,
    <<"R", "e", "a", "c", "t">>,
    <<"V", "u", "e">>,
    <<"A", "n", "g", "u", "l", "a", "r">>,
    <<"F", "r", "o", "n", "t", "e", "n", "d">>,
    <<"G", "o">>,
    <<"p", "y", "t", "h">>,
    <<"J", "a">> }

ClassifyRequirements ==
  { <<>>, Absent, S_python, S_java, S_js, <<"o", "n">>, <<"v", "a">> }

ClassifyResponsibilities ==
  { <<>>, Absent, S_vue, <<"J">> \o Tail(S_javascript) }

ClassifyInit ==
  /\ pc = "classify"
  /\ now = 16 /\ limit = 1
  /\ period_start = get_target_period(16)[1]
  /\ period_end = get_target_period(16)[2]
  /\ page = 0 /\ all_vacancies = <<>> /\ total_found = 0
  /\ result = ResultNone /\ fpage = 0
  /\ attempt = 0 /\ backoff = 0 /\ wait = 0 /\ lastResp = NoResp
  /\ lastReqs = <<>> /\ fetched = <<>> /\ failed = -1
  /\ filtered_vacancies = <<>> /\ final_vacancies = <<>>
  /\ tg_client = "none" /\ console = {} /\ returned = -1 /\ env = FullEnv
  /\ report = <<>> /\ parts = <<>> /\ part_idx = 0 /\ sent = <<>>
  /\ \E n \in ClassifyNames, rq \in ClassifyRequirements,
        rs \in ClassifyResponsibilities :
        cls = [name |-> n, snippet |-> Snippet(rq, rs), out |-> "none"]

\* one call: the category returned, or the exception of a non-string operand
Classify ==
  /\ pc = "classify"
  /\ cls' = [cls EXCEPT !.out =
               IF DetectRaises(cls.name, cls.snippet) THEN "raise"
               ELSE detect_specialization(cls.name, cls.snippet)]
  /\ pc' = "classified"
  /\ UNCHANGED <<runVars, sendVars, now, limit, period_start, period_end,
                 page, all_vacancies, total_found, result, fpage, attempt,
                 backoff, wait, lastResp, lastReqs, fetched, failed,
                 filtered_vacancies, final_vacancies>>

SpecClassify == ClassifyInit /\ [][Classify]_vars

\* ------------------------------------------------------------------------
\* Properties
\* ------------------------------------------------------------------------
Range(s) == { s[i] : i \in 1..Len(s) }
Count(x, s) == Cardinality({ i \in 1..Len(s) : s[i] = x })

RECURSIVE Concat(_)
Concat(ss) == IF ss = <<>> THEN <<>> ELSE Head(ss) \o Concat(Tail(ss))

FilterDone == pc \in {"truncate", "render"}

\* the publication instant of a record
PublishedAt(v) == parse_date(v.published_at)

\* the city name is a non-empty string in which some allow-listed city
\* occurs at some offset, letter case ignored
CityAllowed(v) ==
  LET name == v.area.name IN
  /\ name # NoneVal
  /\ Len(name) > 0
  /\ \E t \in Range(TARGET_CITIES) :
       \E off \in 0..(Len(name) - Len(t)) :
          \A j \in 1..Len(t) : LowerChar(name[off + j]) = LowerChar(t[j])

ShouldKeep(v) ==
  /\ period_start <= PublishedAt(v) /\ PublishedAt(v) <= period_end
  /\ CityAllowed(v)

\* C1: once filter_vacancies has run, a record occurs in its output as often
\* as it occurs in the accumulated list if its publication instant lies in
\* [period_start, period_end], both ends included, and its city name is
\* non-empty and contains an allow-listed city case-insensitively; otherwise
\* it does not occur in the output at all.
C1_FilterKeepsExactly ==
  FilterDone =>
    \A v \in Range(all_vacancies) \cup Range(filtered_vacancies) :
       Count(v, filtered_vacancies) =
         IF ShouldKeep(v) THEN Count(v, all_vacancies) ELSE 0

\* a record published exactly at period_end is kept, twice because it was
\* accumulated twice, and one published an hour later is dropped
C1_Witness ==
  /\ FilterDone
  /\ \E v \in Range(all_vacancies) :
        /\ PublishedAt(v) = period_end
        /\ Count(v, all_vacancies) = 2
        /\ Count(v, filtered_vacancies) = 2
  /\ \E w \in Range(all_vacancies) :
        /\ PublishedAt(w) = period_end + 1
        /\ CityAllowed(w)
        /\ Count(w, filtered_vacancies) = 0

\* C2: the output of filter_vacancies is in descending order of publication
\* instant, and the records of one instant are in the order in which they
\* were accumulated.
C2_SortedStable ==
  FilterDone =>
    /\ \A i, j \in 1..Len(filtered_vacancies) :
          i < j => PublishedAt(filtered_vacancies[i]) >= PublishedAt(filtered_vacancies[j])
    /\ \A k \in { PublishedAt(v) : v \in Range(filtered_vacancies) } :
          LET AtK(v) == PublishedAt(v) = k
              KeptAtK(v) == PublishedAt(v) = k /\ v \in Range(filtered_vacancies)
          IN  SelectSeq(filtered_vacancies, AtK) = SelectSeq(all_vacancies, KeptAtK)

\* three records are kept, two of them of one instant and distinct, and the
\* sort has moved a record
C2_Witness ==
  /\ FilterDone
  /\ Len(filtered_vacancies) = 3
  /\ \E i, j \in 1..3 :
        /\ i < j
        /\ PublishedAt(filtered_vacancies[i]) = PublishedAt(filtered_vacancies[j])
        /\ filtered_vacancies[i] # filtered_vacancies[j]
  /\ filtered_vacancies # all_vacancies

InFetch == pc \in {"attempt", "sleep"}
Collecting == pc \in {"start", "loop", "attempt", "sleep", "page", "pause"}

\* C3: fetch_page never makes more than MAX_PAGE_ATTEMPTS attempts for a
\* page: every sleep is followed by the next attempt or by the return, the
\* last attempt ends in a return or in one sleep followed by the return of
\* None, and None is returned only when the attempts are used up.
C3_BoundedAttempts ==
  [][ /\ InFetch' => attempt' \in 1..MAX_PAGE_ATTEMPTS
      /\ (pc = "sleep" /\ attempt < MAX_PAGE_ATTEMPTS) =>
            (pc' = "attempt" /\ attempt' = attempt + 1 /\ fpage' = fpage)
      /\ (pc = "attempt" /\ pc' = "sleep") => attempt' = attempt
      /\ (pc = "sleep" /\ attempt = MAX_PAGE_ATTEMPTS) =>
            (pc' = "page" /\ ~result'.ok /\ failed' = fpage)
      /\ (pc = "attempt" /\ attempt = MAX_PAGE_ATTEMPTS /\ pc' # "sleep") =>
            (pc' = "page" /\ (result'.ok \/ failed' = fpage))
      /\ failed' # failed =>
            (attempt = MAX_PAGE_ATTEMPTS /\ pc' = "page" /\ ~result'.ok)
    ]_vars

\* fetch_page has given up on a page and returned None to collect_once
C3_Witness ==
  /\ pc = "page"
  /\ ~result.ok
  /\ failed = fpage
  /\ Len(lastReqs) = 1

C5_PagesInOrder ==
  [][ /\ fetched' = [i \in 1..Len(fetched') |-> i - 1]
      /\ lastReqs' # lastReqs =>
            /\ \A r \in Range(lastReqs') : r.page = lastReqs'[1].page
            /\ attempt > 1 => lastReqs'[1].page = lastReqs[1].page
            /\ \A q \in Range(lastReqs) : q.page <= lastReqs'[1].page
      /\ fetched' # fetched =>
            fetched'[Len(fetched')] = lastReqs'[1].page
    ]_vars

\* the third attempt for page 3 is about to be made
C5_Witness ==
  /\ pc = "attempt"
  /\ attempt = 3
  /\ fetched = <<0, 1, 2>>
  /\ lastReqs[1].page = 3

\* C6: while a page fetch is in progress the number of accumulated records
\* is below 3 x limit and the page index is below 20, and no request ever
\* carries a page index of 20 or more.
C6_FetchGuard ==
  /\ InFetch =>
        /\ Len(all_vacancies) < ACCUMULATION_FACTOR * limit
        /\ page < PAGE_CEILING
        /\ fpage = page
  /\ \A r \in Range(lastReqs) : r.page < PAGE_CEILING

\* the loop has ended only because page index 20 was reached
C6_Witness ==
  /\ pc = "filter"
  /\ page = PAGE_CEILING
  /\ Len(all_vacancies) < ACCUMULATION_FACTOR * limit
  /\ result.ok /\ result.items # <<>> /\ page < result.pages

\* C7: a fetched page without items ends the loop with nothing added; the
\* fetch of a page p+1 is in progress only if page p had items and p+1 is
\* below the total page count page p reported; and after the loop has ended
\* no request is issued.
C7_EmptyAndLastPage ==
  [][ /\ (pc = "page" /\ result.ok /\ result.items = <<>>) =>
            (pc' = "filter" /\ all_vacancies' = all_vacancies /\ page' = page)
      /\ (InFetch' /\ page' > 0) =>
            (result'.ok /\ result'.items # <<>> /\ page' < result'.pages)
      /\ ~Collecting => (lastReqs' = lastReqs /\ ~Collecting')
    ]_vars

\* the loop has ended after page 1 because the response reported two pages
C7_Witness ==
  /\ pc = "filter"
  /\ result.ok /\ result.items # <<>>
  /\ page = 2 /\ result.pages = 2
  /\ Len(all_vacancies) < ACCUMULATION_FACTOR * limit

Chunked == parts # <<>>

\* the messages handed to the channel so far, in order
SentMessages ==
  LET IsSend(e) == e.op = "send"
      sends == SelectSeq(sent, IsSend)
  IN  [i \in 1..Len(sends) |-> sends[i].msg]

\* C8 as stated: the chunks of a report longer than 4000 characters,
\* concatenated in the order of sending, are exactly the report.
C8_ConcatIsReport ==
  Chunked => Concat(parts) = report

\* C8, amended: the chunks of a report longer than 4000 characters,
\* concatenated in order, are the report followed by one newline character;
\* this is also what the channel has received, in this order, when the
\* dispatch has completed.
C8_ConcatIsReportNewline ==
  Chunked =>
    /\ Concat(parts) = report \o <<NL>>
    /\ pc = "dispatched" => Concat(SentMessages) = report \o <<NL>>

\* a report of four lines went out in three chunks or more
C8_Witness ==
  /\ pc = "dispatched"
  /\ Len(SplitLines(report)) = 4
  /\ Len(parts) >= 3
  /\ Len(SentMessages) = Len(parts)

\* C9: every chunk of a report longer than 4000 characters has at most 4000
\* characters and is made of whole lines of the report: it is empty or ends
\* with the newline that ends a line, and the chunks together are the lines
\* of the report in order.
C9_ChunksFitWholeLines ==
  Chunked =>
    /\ \A i \in 1..Len(parts) :
          /\ StrLen(parts[i]) <= MESSAGE_LIMIT
          /\ parts[i] = <<>> \/ parts[i][Len(parts[i])] = NL
    /\ Concat(parts) = report \o <<NL>>

\* the dispatch log a list of chunks must produce: the first chunk, then
\* for every further chunk a delay of one second and the chunk
RECURSIVE ExpectedLog(_)
ExpectedLog(ps) ==
  IF ps = <<>> THEN <<>>
  ELSE IF Len(ps) = 1 THEN <<SendEvent(ps[1])>>
  ELSE ExpectedLog(SubSeq(ps, 1, Len(ps) - 1))
         \o <<SleepEvent(1), SendEvent(ps[Len(ps)])>>

IsPrefix(s, t) == Len(s) <= Len(t) /\ s = SubSeq(t, 1, Len(s))

\* C10: in chunked dispatch what happens on the channel is at every moment
\* a beginning of: first chunk, delay of 1 s, second chunk, delay of 1 s, ...,
\* last chunk, with a delay pending only after a chunk was sent, and all of
\* it once the dispatch has completed; a report of at most 4000 characters
\* is sent as one message, the whole report, without any delay; without a
\* client or a destination nothing is sent.
C10_OrderedPacedSends ==
  /\ (Chunked /\ pc # "dispatch") =>
        /\ IsPrefix(sent, ExpectedLog(parts))
        /\ Len(sent) >= 1
        /\ pc = "dispatched" => sent = ExpectedLog(parts)
        /\ pc = "send_next" => sent[Len(sent)].op = "sleep"
        /\ pc = "chunk_sleep" => sent[Len(sent)].op = "send"
  /\ (~Chunked /\ pc # "dispatch" /\ SendReady) =>
        /\ StrLen(report) <= MESSAGE_LIMIT
        /\ sent = <<SendEvent(report)>>
  /\ ~SendReady => sent = <<>>
  /\ (pc = "dispatch" /\ StrLen(report) > MESSAGE_LIMIT) => sent = <<>>

\* three chunks have been sent with the two delays between them
C10_Witness ==
  /\ pc = "dispatched"
  /\ Len(parts) = 3
  /\ Len(sent) = 5
  /\ sent[2].op = "sleep" /\ sent[4].op = "sleep"

\* C11: an attempt that got a 400 and issued the fallback query ends the
\* call: fetch_page returns the fallback's body if the fallback succeeded and
\* failure if it did not, so that no further request follows and the
\* fallback is issued once in a call.
C11_FallbackEndsCall ==
  [][ (pc = "attempt" /\ Len(lastReqs') = 2) =>
         /\ lastReqs'[2] = Req(fpage, TRUE)
         /\ pc' = "page"
         /\ result'.ok \/ failed' = fpage
    ]_vars

\* C12: a sleep that follows a 429 lasts as long as the Retry-After header
\* says when the header is there and is a number, and as long as the current
\* backoff otherwise; after it the same page is requested again; the
\* backoff is 1 s when fetch_page starts, doubles with every 429 and every
\* failed attempt, and is never above 60 s.
C12_RetryAfterAndBackoff ==
  [][ /\ (pc = "sleep" /\ lastResp.status = "429") =>
            /\ wait = IF lastResp.ra.kind = "digits" THEN lastResp.ra.val ELSE backoff
            /\ pc' = "attempt" /\ fpage' = fpage /\ attempt' = attempt + 1
      /\ (pc = "loop" /\ pc' = "attempt") => backoff' = 1
      /\ (pc = "sleep" /\ pc' = "attempt") =>
            backoff' = IF 2 * backoff > 60 THEN 60 ELSE 2 * backoff
      /\ (pc = "attempt" /\ pc' = "sleep") => backoff' = backoff
      /\ backoff' <= 60
    ]_vars

\* C13: the pacing delay is taken only after a page was fetched and
\* accumulated, it is followed by the fetch of the next page, and it is not
\* taken when fetch_page has failed.
C13_PauseBetweenFetches ==
  [][ /\ pc' = "pause" =>
            (pc = "page" /\ result.ok /\ result.items # <<>> /\ page' = page + 1)
      /\ pc = "pause" => (pc' = "loop" /\ page' = page)
      /\ (pc = "loop" /\ page > 0) => (pc' = "attempt" /\ fpage' = page)
      /\ (pc = "page" /\ ~result.ok) => pc' # "pause"
    ]_vars

\* C14: the records of the report are the first min(limit, n) of the n
\* filtered and sorted records, in that order; a record that passes the
\* filter and is missing from them has `limit` records in front of it, none
\* of them published earlier than it.
C14_LimitAfterFilter ==
  pc = "render" =>
    /\ Len(final_vacancies) =
         IF limit <= Len(filtered_vacancies) THEN limit ELSE Len(filtered_vacancies)
    /\ \A i \in 1..Len(final_vacancies) : final_vacancies[i] = filtered_vacancies[i]
    /\ \A v \in Range(all_vacancies) :
          (ShouldKeep(v) /\ Count(v, final_vacancies) < Count(v, all_vacancies)) =>
             /\ Len(final_vacancies) = limit
             /\ \A w \in Range(final_vacancies) : PublishedAt(w) >= PublishedAt(v)

\* three records pass the filter and the limit is two: the record that was
\* accumulated last is in the report, the one accumulated first is not
C14_Witness ==
  /\ pc = "render"
  /\ Len(all_vacancies) = 3
  /\ Len(filtered_vacancies) = 3
  /\ Len(final_vacancies) = 2
  /\ all_vacancies[3] \in Range(final_vacancies)
  /\ all_vacancies[1] \notin Range(final_vacancies)

\* the text the rules are applied to, and the substring test, written apart
\* from the program's operators
ClassifiedText ==
  Lower(cls.name) \o <<" ">> \o
  Lower(IF cls.snippet.requirement = Absent THEN <<>> ELSE cls.snippet.requirement)
  \o <<" ">> \o
  Lower(IF cls.snippet.responsibility = Absent THEN <<>>
        ELSE cls.snippet.responsibility)

Has(k) ==
  \E i \in 1..Len(ClassifiedText) :
     /\ i + Len(k) - 1 <= Len(ClassifiedText)
     /\ \A j \in 1..Len(k) : ClassifiedText[i + j - 1] = k[j]

\* C16: detect_specialization returns, for every title and snippet of
\* strings (empty and absent ones included), exactly one category, the one
\* of the first matching rule on the lowercase text: Python on "python";
\* else Java on "java" without "javascript" and "js"; else Frontend on any
\* of "frontend", "react", "angular", "vue", "javascript", "js"; else the
\* generic category. A text with "javascript" is never Java, and a text
\* with "java" and none of "python", "javascript", "js" is Java.
C16_FirstMatchWins ==
  pc = "classified" =>
    /\ cls.out \in {"Python", "Java", "Frontend", "IT"}
    /\ cls.out = "Python" <=> Has(S_python)
    /\ cls.out = "Java" <=>
          (~Has(S_python) /\ Has(S_java) /\ ~Has(S_javascript) /\ ~Has(S_js))
    /\ cls.out = "Frontend" <=>
          /\ ~Has(S_python)
          /\ ~(Has(S_java) /\ ~Has(S_javascript) /\ ~Has(S_js))
          /\ \E k \in {S_frontend, S_react, S_angular, S_vue, S_javascript, S_js} :
                Has(k)
    /\ Has(S_javascript) => cls.out # "Java"

\* a "JavaScript" title with "java" in the requirement is Frontend
C16_Witness ==
  /\ pc = "classified"
  /\ Has(S_javascript) /\ cls.snippet.requirement = S_java
  /\ ~Has(S_python)
  /\ cls.out = "Frontend"

\* the source line of the statement that made a character run of the report
MadeBy(tok) == tok.id % 1000

\* the record a character run of the report was made from
MadeFrom(tok) == tok.id \div 1000 - 1

Rendered == pc \in {"save", "init_telegram", "dispatch", "chunk_sleep", "send_next",
                    "dispatched", "send_error", "disconnect", "return", "done"}

\* C15: when the filter keeps no record, the report is the one line of the
\* "no vacancies found for the period" message and nothing else: no header,
\* no statistics, no record section, no summary.
C15_EmptyResultMessage ==
  (Rendered /\ filtered_vacancies = <<>>) =>
     /\ Len(report) = 1
     /\ ~report[1].nl
     /\ MadeBy(report[1]) = 304
     /\ report[1].id \div 1000 = period_end

\* records were fetched, none was kept, and the message was sent
C15_Witness ==
  /\ pc = "done" /\ Len(all_vacancies) = 2 /\ filtered_vacancies = <<>>
  /\ Len(sent) = 1 /\ sent[1].msg = report /\ MadeBy(report[1]) = 304

\* the well-formed records: a title and snippet texts that are strings
WellFormed(v) ==
  /\ v.name # NoneVal
  /\ v.snippet.requirement # NoneVal
  /\ v.snippet.responsibility # NoneVal

\* the run's steps that raise and leave collect_once
Aborted == pc = "fatal"

\* C17: a missing channel configuration value, a failed initialization and
\* a failed send do not fail the run: nothing (more) is sent, the console
\* tells what happened, and collect_once goes on to return the number of
\* records in the report.
C17_ChannelFailuresNotFatal ==
  [][ /\ (pc = "init_telegram" /\ ~EnvComplete) =>
            "env_missing" \in console' /\ pc' = "disconnect"
      /\ (pc = "init_telegram" /\ tg_client' # "started") =>
            /\ pc' = "disconnect"
            /\ console' \cap {"env_missing", "api_id_not_number", "init_failed"} # {}
      /\ pc = "send_error" => ("send_failed" \in console' /\ pc' = "disconnect")
      /\ (tg_client # "started" \/ "send_failed" \in console) => sent' = sent
      /\ (pc \in {"init_telegram", "dispatch", "send_next", "send_error", "disconnect"})
            => ~Aborted'
      /\ pc = "disconnect" => pc' = "return"
      /\ pc = "return" =>
            /\ pc' = "done" /\ returned' = Len(final_vacancies)
            /\ returned' = Cardinality({ i \in 1..Len(report) : MadeBy(report[i]) = 342 })
    ]_vars

\* the second message of a chunked report failed; the run returned 1
C17_Witness ==
  /\ pc = "done" /\ returned = 1
  /\ "send_failed" \in console /\ Len(sent) = 3 /\ Len(parts) > 2

\* C18: when the output directory cannot be created or the file cannot be
\* written, the run does not fail: the report is printed and the run goes on
\* to the channel.
C18_PersistFailureNotFatal ==
  [][ /\ pc = "start" => ~Aborted'
      /\ pc = "save" => (pc' = "init_telegram" /\
                         console' \cap {"report_saved", "report_printed"} # {}) ]_vars

\* C19: items with absent or null fields on a page do not abort the run,
\* and every well-formed record that passes the filter within the limit has
\* its section in the report.
C19_MalformedItemsTolerated ==
  /\ ~Aborted
  /\ Rendered =>
       \A i \in 1..Len(final_vacancies) :
          WellFormed(final_vacancies[i]) =>
             \E j \in 1..Len(report) :
                MadeBy(report[j]) = 343 /\ MadeFrom(report[j]) = final_vacancies[i].id

\* the order of the steps of collect_once after the paging loop
Stage(p) ==
  CASE p = "filter" -> 1 [] p = "truncate" -> 2 [] p = "render" -> 3
    [] p = "save" -> 4 [] p = "init_telegram" -> 5 [] p = "dispatch" -> 6
    [] p \in {"chunk_sleep", "send_next"} -> 7
    [] p \in {"dispatched", "send_error"} -> 8
    [] p = "disconnect" -> 9 [] p = "return" -> 10 [] p = "done" -> 11
    [] OTHER -> 12

\* C20: the channel is initialized at most once, after the report was
\* built; a message is sent only by a started client that was not yet
\* disconnected; a client that was created is disconnected when
\* collect_once returns.
C20_ChannelLifecycle ==
  [][ /\ Stage(pc') >= Stage(pc)
      /\ pc = "init_telegram" => (Stage(pc') > Stage(pc) /\ report # <<>>)
      /\ tg_client' # tg_client =>
            \/ pc = "init_telegram" /\ tg_client = "none"
            \/ pc = "disconnect" /\ tg_client' = "disconnected"
      /\ sent' # sent => (tg_client = "started" /\ tg_client' = "started")
      /\ pc' \in {"return", "done"} => tg_client' \in {"none", "disconnected"}
      /\ returned' # -1 => tg_client' \in {"none", "disconnected"} ]_vars

\* a client whose start failed was disconnected, and nothing was sent
C20_Witness ==
  /\ pc = "done" /\ tg_client = "disconnected"
  /\ "init_failed" \in console /\ sent = <<>>

\* C21: whatever the current time, the period runs from 20:00 to 20:00
\* (UTC+3), 24 hours, start before end, and ends at 20:00 of the day that
\* `now` lies in by the UTC+3 calendar; it is computed once, and these two
\* instants are the ones the filter tests against and the report shows.
C21_PeriodOncePerRun ==
  pc # "start" =>
    /\ period_start < period_end
    /\ period_end - period_start = 24
    /\ \E day \in 0..(now + 3) :
          /\ 24 * day <= now + 3 /\ now + 3 < 24 * (day + 1)
          /\ period_end + 3 = 24 * day + 20
    /\ pc \in {"truncate", "render", "save"} =>
          \A v \in Range(all_vacancies) :
             Count(v, filtered_vacancies) =
               IF /\ period_end - 24 <= PublishedAt(v) /\ PublishedAt(v) <= period_end
                  /\ CityAllowed(v)
               THEN Count(v, all_vacancies) ELSE 0
    /\ pc = "save" =>
          \E j \in 1..Len(report) :
             MadeBy(report[j]) \in {304, 328} /\ report[j].id \div 1000 = period_end

\* a run started at 01:00 (UTC+3), which is 22:00 UTC of the day before,
\* kept a record and rendered it
C21_Witness ==
  /\ pc = "save" /\ now = 22
  /\ period_start = 17 /\ period_end = 41
  /\ final_vacancies # <<>>

\* C22: fetch_page sleeps only between two attempts: a retry sleep is
\* followed by the next attempt for the same page, and the 6th attempt,
\* failing with a 429 or with a network error, is followed by the return of
\* the failure, not by a sleep.
C22_SleepOnlyBetweenAttempts ==
  [][ /\ pc = "sleep" =>
            (pc' = "attempt" /\ fpage' = fpage /\ attempt' = attempt + 1)
      /\ (pc = "attempt" /\ attempt = MAX_PAGE_ATTEMPTS /\ pc' # "attempt") =>
            (pc' = "page" /\ wait' = 0) ]_vars

\* C23: in chunked dispatch no chunk is empty and no empty message is
\* handed to the channel, whatever the lengths of the lines of the report.
C23_NoEmptyChunk ==
  Chunked =>
    /\ \A i \in 1..Len(parts) : StrLen(parts[i]) > 0
    /\ \A i \in 1..Len(SentMessages) : StrLen(SentMessages[i]) > 0

====
